---- MODULE Spec2Model ----
(***************************************************************************)
(* Model of the statistical core of randqa: the two SP 800-90B health      *)
(* tests (health/rct.py, health/apt.py), the Benjamini-Hochberg            *)
(* correction (util/fdr.py) and the aggregator run_tests (main.py).        *)
(*                                                                         *)
(* Every entry point is a pure function; the state machine records, for    *)
(* the last call, which operation ran (op), its arguments (args) and what  *)
(* it returned or raised (ret).                                            *)
(*                                                                         *)
(* Python floats are modelled as binary floating-point numbers with        *)
(* FloatBits bits of precision and round-to-nearest-even, stored as the    *)
(* integer numerator over the fixed denominator Scale (1.0 is Scale).      *)
(* Python dicts are modelled as records (key presence is DOMAIN), and      *)
(* insertion-ordered name->value dicts as sequences of <<name, value>>.    *)
(* True / False / None are the strings "True" / "False" / "None".          *)
(***************************************************************************)
EXTENDS Integers, Sequences, FiniteSets, TLC

VARIABLES op, args, ret, source, hist

vars == <<op, args, ret, source, hist>>

(***************************************************************************)
(* Bounds of the model                                                     *)
(***************************************************************************)
FloatBits == 3      \* bits of precision of a modelled float (53 in CPython)
MaxLen == 5         \* longest bit sequence handed to a health test
MaxRunLen == 5      \* longest bit sequence handed to run_tests
MaxTests == 3       \* most entries in a dict handed to benjamini_hochberg
MaxCutoff == 4      \* largest RCT cutoff tried
MaxWindow == 3      \* largest APT window tried
MaxBytes == 3       \* most bytes asked of a source or held by a payload
UrandomLen == 2     \* bytes os.urandom returns per refill (4096 in the code)
MaxOut == 48        \* most bits a generator is made to emit
MaxLongLen == 24    \* longest structured sequence handed to a p-value test
MaxPackLen == 17    \* longest bit sequence handed to _pack_bits_little

(***************************************************************************)
(* Floating point                                                          *)
(***************************************************************************)
Pow2(e) == IF e <= 0 THEN 1 ELSE 2^e

\* Unit in the last place for the non-negative rational a/b: the smallest
\* power of two u with a/b < 2^FloatBits * u.
RECURSIVE UlpOf(_, _, _)
UlpOf(a, b, u) == IF a < Pow2(FloatBits) * u * b THEN u ELSE UlpOf(a, b, 2 * u)

\* The float nearest to the non-negative rational a/b, ties to even.
Round(a, b) ==
    LET u == UlpOf(a, b, 1)
        d == b * u
        q == a \div d
        r == a % d
        up == (2 * r > d) \/ (2 * r = d /\ q % 2 = 1)
    IN (IF up THEN q + 1 ELSE q) * u

IsFloat(x) == x >= 0 /\ Round(x, 1) = x

FMul(x, k) == Round(x * k, 1)       \* float * int
FDiv(x, k) == Round(x, k)           \* float / int
FMin(x, y) == IF x <= y THEN x ELSE y

\* The float nearest to the square root of the non-negative integer r.
RoundSqrt(r) ==
    LET y == CHOOSE z \in 0..r : z * z <= r /\ (z + 1) * (z + 1) > r
        u == UlpOf(y, 1, 1)
        q == y \div u
        h == (2 * q + 1) * u
        up == (4 * r > h * h) \/ (4 * r = h * h /\ q % 2 = 1)
    IN (IF up THEN q + 1 ELSE q) * u

\* denominator of the modelled floats: they are multiples of 1/Scale, so
\* values below 2^(FloatBits-1)/Scale underflow gradually, as subnormals do
Scale == Pow2(FloatBits + 1)

One == Scale                        \* 1.0

\* The floats of [0, 1]
PGrid == {x \in 0..Scale : IsFloat(x)}


\* None where a float is expected (a p-value, a q-value)
NoneP == -1

\* Bit sequences of length at most n
BitSeqs(n) == UNION {[1..k -> {0, 1}] : k \in 0..n}

RECURSIVE SumSeq(_)
SumSeq(s) == IF s = <<>> THEN 0 ELSE s[1] + SumSeq(Tail(s))

(***************************************************************************)
(* util/fdr.py                                                             *)
(***************************************************************************)
\* items.sort(key=lambda kv: kv[1]): list.sort is stable
RECURSIVE InsertByP(_, _)
InsertByP(s, kv) ==
    IF s = <<>> THEN <<kv>>
    ELSE IF s[Len(s)][2] <= kv[2] THEN Append(s, kv)
    ELSE Append(InsertByP(SubSeq(s, 1, Len(s) - 1), kv), s[Len(s)])

\* the items left in insertion order
SortKeepOrder(items) == items

RECURSIVE SortByP(_)
SortByP(items) ==
    IF items = <<>> THEN <<>>
    ELSE InsertByP(SortByP(SubSeq(items, 1, Len(items) - 1)), items[Len(items)])

\* a candidate without the number of tests: min(p / i, 1.0)
RawQUnscaled(p, m, i) == FMin(FDiv(p, i), One)

\* a candidate that ignores the rank: min(p * m, 1.0)
RawQNoRank(p, m, i) == FMin(FMul(p, m), One)

\* raw q_i = min(p_i * m / i, 1.0)
RawQ(p, m, i) == FMin(FDiv(FMul(p, m), i), One)

\* for name, q in reversed(raw): running = min(running, q)
RECURSIVE RunningMin(_, _)
RunningMinNoSweep(raw, i) == raw[i][2]
RunningMin(raw, i) ==
    IF i > Len(raw) THEN One
    ELSE FMin(RunningMin(raw, i + 1), raw[i][2])

\* qvals_sorted.get(k, None)
QGet(raw, k) ==
    IF \E i \in 1..Len(raw) : raw[i][1] = k
    THEN RunningMin(raw, CHOOSE i \in 1..Len(raw) : raw[i][1] = k)
    ELSE NoneP

benjamini_hochberg(pdict) ==
    LET items == SortByP(SelectSeq(pdict, LAMBDA kv : kv[2] # NoneP))
        m == Len(items)
        raw == [i \in 1..m |-> <<items[i][1], RawQ(items[i][2], m, i)>>]
    IN IF m = 0 THEN <<>>
       ELSE [j \in 1..Len(pdict) |-> <<pdict[j][1], QGet(raw, pdict[j][1])>>]

(***************************************************************************)
(* health/rct.py                                                           *)
(***************************************************************************)
\* the scan loop: for i in range(1, n)
RECURSIVE RctScan(_, _, _, _)
RECURSIVE RctScanNoReset(_, _, _, _)
RctScanNoReset(b, i, runs, max_run) ==
    IF i > Len(b) THEN max_run
    ELSE IF b[i] = b[i - 1]
         THEN RctScanNoReset(b, i + 1, runs + 1,
                             IF runs + 1 > max_run THEN runs + 1 ELSE max_run)
         ELSE RctScanNoReset(b, i + 1, runs, max_run)
RctScan(b, i, runs, max_run) ==
    IF i > Len(b) THEN max_run
    ELSE IF b[i] = b[i - 1]
         THEN RctScan(b, i + 1, runs + 1,
                      IF runs + 1 > max_run THEN runs + 1 ELSE max_run)
         ELSE RctScan(b, i + 1, 1, max_run)

RctInvalid(cutoff) == cutoff < 2

repetition_count_test(bits, cutoff) ==
    LET n == Len(bits)
        max_run == RctScan(bits, 2, 1, 1)
    IN IF RctInvalid(cutoff)
       THEN [kind |-> "raise", error |-> "RCT cutoff must be an integer >= 2"]
       ELSE IF n = 0
       THEN [kind |-> "return",
             value |-> [pass |-> "None", max_run |-> 0, cutoff |-> cutoff,
                        approx_p |-> NoneP, n |-> 0,
                        reason |-> "insufficient bits: n=0"]]
       ELSE [kind |-> "return",
             value |-> [pass |-> IF max_run < cutoff THEN "True" ELSE "False",
                        max_run |-> max_run, cutoff |-> cutoff,
                        approx_p |-> FMin(One, Round(n * Scale, Pow2(cutoff - 1))),
                        n |-> n]]

(***************************************************************************)
(* health/apt.py                                                           *)
(***************************************************************************)
RECURSIVE Choose(_, _)
Choose(w, k) ==
    IF k = 0 \/ k = w THEN 1 ELSE Choose(w - 1, k - 1) + Choose(w - 1, k)

\* 2^w * P(X <= k) for X ~ Binomial(w, 0.5)
RECURSIVE CdfNum(_, _)
CdfNum(w, k) == IF k < 0 THEN 0 ELSE Choose(w, k) + CdfNum(w, k - 1)

\* scipy.stats.binom.ppf(a / 2, w, 0.5): the least k with P(X <= k) >= a/2
BinomPpf(a, w) ==
    CHOOSE k \in 0..w :
        /\ 2 * Scale * CdfNum(w, k) >= a * Pow2(w)
        /\ \A j \in 0..(k - 1) : 2 * Scale * CdfNum(w, j) < a * Pow2(w)

\* scipy.stats.binom.isf(a / 2, w, 0.5): the least k with P(X > k) <= a/2
BinomIsf(a, w) ==
    CHOOSE k \in 0..w :
        /\ 2 * Scale * (Pow2(w) - CdfNum(w, k)) <= a * Pow2(w)
        /\ \A j \in 0..(k - 1) : 2 * Scale * (Pow2(w) - CdfNum(w, j)) > a * Pow2(w)

\* reshaped.sum(axis=1)[i], windows indexed from 0
OnesPer(b, w, i) == SumSeq(SubSeq(b, i * w + 1, (i + 1) * w))

AptInvalidWindow(w) == w <= 0
AptInvalidAlphaClosed(a) == ~(0 <= a /\ a <= One)
AptInvalidAlpha(a) == ~(0 < a /\ a < One)

\* if n < w: not enough data to run any window
AptInsufficientOnlyEmpty(n, w) == n = 0
AptInsufficient(n, w) == n < w

\* n_windows = n // w
NWindows(n, w) == n \div w

Violates(ones, lower, upper) == ones < lower \/ ones > upper

\* the loop over enumerate(ones_per)
RECURSIVE AptViolations(_, _, _, _, _, _)
RECURSIVE AptFirstViolation(_, _, _, _, _, _)
AptFirstViolation(b, w, lower, upper, i, n_windows) ==
    IF i >= n_windows THEN <<>>
    ELSE IF Violates(OnesPer(b, w, i), lower, upper)
         THEN <<[window_index |-> i, ones |-> OnesPer(b, w, i)]>>
         ELSE AptFirstViolation(b, w, lower, upper, i + 1, n_windows)
AptViolations(b, w, lower, upper, i, n_windows) ==
    IF i >= n_windows THEN <<>>
    ELSE (IF Violates(OnesPer(b, w, i), lower, upper)
          THEN <<[window_index |-> i, ones |-> OnesPer(b, w, i)]>>
          ELSE <<>>)
         \o AptViolations(b, w, lower, upper, i + 1, n_windows)

adaptive_proportion_test(bits, window, alpha) ==
    LET w == window
        a == alpha
        n == Len(bits)
        lower == BinomPpf(a, w)
        upper == BinomIsf(a, w)
        n_windows == NWindows(n, w)
        violations == AptViolations(bits, w, lower, upper, 0, n_windows)
    IN IF AptInvalidWindow(w)
       THEN [kind |-> "raise", error |-> "APT window must be > 0"]
       ELSE IF AptInvalidAlpha(a)
       THEN [kind |-> "raise", error |-> "alpha must be in (0, 1)"]
       ELSE IF AptInsufficient(n, w)
       THEN [kind |-> "return",
             value |-> [pass |-> "None", window |-> w, alpha |-> a,
                        lower |-> "None", upper |-> "None",
                        violations |-> <<>>, n |-> n, n_windows |-> 0,
                        reason |-> "insufficient bits: n=" \o ToString(n)
                                   \o " < window=" \o ToString(w)]]
       ELSE [kind |-> "return",
             value |-> [pass |-> IF Len(violations) = 0 THEN "True" ELSE "False",
                        window |-> w, alpha |-> a,
                        lower |-> lower, upper |-> upper,
                        violations |-> violations, n |-> n,
                        n_windows |-> n_windows]]

(***************************************************************************)
(* metrics/*.py, ml/predictor.py                                           *)
(*                                                                         *)
(* erfc, gammaincc, log2, zlib and the logistic-regression fit are library *)
(* code.  Where the code reaches one of them with an argument whose value  *)
(* is not exact, the value the library returns on this input is the field  *)
(* of the record lib named after the call; every other path is computed.   *)
(***************************************************************************)
Ones(bits) == SumSeq(bits)

\* transitions = sum(bits[1:] != bits[:-1])
Transitions(bits) == Cardinality({i \in 1..(Len(bits) - 1) : bits[i] # bits[i + 1]})

\* metrics/mono_bit.py
MonoExact(bits) == Len(bits) = 0 \/ 2 * Ones(bits) = Len(bits)
mono_bit_pvalue(bits, lib) ==
    IF Len(bits) = 0 THEN One
    ELSE IF 2 * Ones(bits) = Len(bits) THEN One      \* erfc(0.0)
    ELSE lib.erfc_mono

\* metrics/monobit.py; s_obs = ones - zeros
monobit_pvalue(bits, lib) ==
    IF Len(bits) = 0 THEN 0
    ELSE IF 2 * Ones(bits) - Len(bits) = 0 THEN One  \* erfc(0.0)
    ELSE lib.erfc_mono

\* metrics/runs.py; pi = float(bits.mean()), tau = 2.0 / sqrt(n) and
\* abs(pi - 0.5) are floats
RunsPi(bits) == Round(Ones(bits) * Scale, Len(bits))
RunsTau(bits) == Round(2 * Scale * Scale, RoundSqrt(Len(bits) * Scale * Scale))
RunsPrecondFails(bits) ==
    LET pi == RunsPi(bits)
        off == IF 2 * pi >= One THEN 2 * pi - One ELSE One - 2 * pi
    IN pi = 0 \/ pi = One \/ Round(off, 2) >= RunsTau(bits)
\* num = |V_n - 2*n*pi*(1-pi)| is zero
RunsNumZero(bits) ==
    LET n == Len(bits)
    IN (Transitions(bits) + 1) * n = 2 * Ones(bits) * (n - Ones(bits))
RunsExact(bits) == Len(bits) < 2 \/ RunsPrecondFails(bits) \/ RunsNumZero(bits)
runs_pvalue(bits, lib) ==
    IF Len(bits) < 2 THEN 0
    ELSE IF RunsPrecondFails(bits) THEN 0
    ELSE IF RunsNumZero(bits) THEN One               \* erfc(0.0)
    ELSE lib.erfc_runs

\* metrics/block_frequency.py; X2 = 0 iff every block holds M/2 ones
BlockX2Zero(bits, M) ==
    \A i \in 0..((Len(bits) \div M) - 1) : 2 * OnesPer(bits, M, i) = M
BlockExact(bits, M) == M <= 0 \/ Len(bits) \div M = 0 \/ BlockX2Zero(bits, M)
\* a block-frequency test that is neutral when there is no complete block
block_frequency_neutral(bits, M, lib) ==
    IF M <= 0 THEN 0
    ELSE IF Len(bits) \div M = 0 THEN One
    ELSE IF BlockX2Zero(bits, M) THEN One
    ELSE lib.gammaincc_blk
block_frequency_pvalue(bits, M, lib) ==
    IF M <= 0 THEN 0
    ELSE IF Len(bits) \div M = 0 THEN 0
    ELSE IF BlockX2Zero(bits, M) THEN One            \* gammaincc(N/2, 0.0)
    ELSE lib.gammaincc_blk

\* an approximate-entropy test that is neutral when the sequence is too short
approximate_entropy_neutral(bits, m, lib) ==
    IF Len(bits) <= m + 1 THEN One
    ELSE lib.gammaincc_apen

\* metrics/approx_entropy.py
ApEnExact(bits, m) == Len(bits) <= m + 1
approximate_entropy_pvalue(bits, m, lib) ==
    IF Len(bits) <= m + 1 THEN 0
    ELSE lib.gammaincc_apen

\* metrics/entropy.py
EntropyExact(bits) ==
    Len(bits) = 0 \/ Ones(bits) = 0 \/ Ones(bits) = Len(bits)
        \/ 2 * Ones(bits) = Len(bits)
shannon_entropy_bits_per_bit(bits, lib) ==
    IF Len(bits) = 0 THEN 0
    ELSE IF Ones(bits) = 0 \/ Ones(bits) = Len(bits) THEN 0
    ELSE IF 2 * Ones(bits) = Len(bits) THEN One
    ELSE lib.log2_entropy

\* main.py _pack_bits_little: len(raw_bytes) is ceil(n / 8)
PackedLen(n) == (n + 7) \div 8

\* metrics/compression.py; lib.zlib_len is len(zlib.compress(raw_bytes, 9))
compression_ratio(raw_len, lib) ==
    IF raw_len = 0 THEN 0 ELSE Round(lib.zlib_len * Scale, raw_len)

\* ml/predictor.py
\* y = windows[:, -1]: the label of sample j (from 1) is bit k + j
Labels(bits, k) == [j \in 1..(Len(bits) - k) |-> bits[k + j]]
\* split = int(m * train_frac) with train_frac = 0.5
Split(m) == m \div 2
MlNotApplicable(bits, k) ==
    LET m == Len(bits) - k
        y == Labels(bits, k)
    IN \/ k < 1
       \/ Len(bits) <= k
       \/ m < 2
       \/ Split(m) <= 0 \/ Split(m) >= m
       \/ \A i, j \in 1..Split(m) : y[i] = y[j]     \* np.unique(y_train).size < 2
\* lib.lr_correct is the number of hold-out labels the fitted model predicts
predictability_score(bits, k, lib) ==
    LET m == Len(bits) - k
    IN IF MlNotApplicable(bits, k) THEN NoneP
       ELSE Round(lib.lr_correct * Scale, m - Split(m))

\* _to_supervised: windows = sliding_window_view(bits, k + 1), one window per
\* start position in stream order; X = windows[:, :k], y = windows[:, -1]
ToSupervised(bits, k) ==
    IF k < 1 \/ Len(bits) <= k THEN [ok |-> FALSE, X |-> <<>>, y |-> <<>>]
    ELSE [ok |-> TRUE,
          X |-> [i \in 1..(Len(bits) - k) |-> SubSeq(bits, i, i + k - 1)],
          y |-> [i \in 1..(Len(bits) - k) |-> bits[i + k]]]

\* split = int(m * train_frac): the float product, truncated
MlSplit(m, train_frac) == FMul(train_frac, m) \div Scale

\* not (0.0 < train_frac < 1.0)
MlInvalidFrac(train_frac) == ~(0 < train_frac /\ train_frac < One)

\* np.unique(y_train).size < 2
SingleClass(y) == \A i, j \in 1..Len(y) : y[i] = y[j]

\* nothing is handed to LogisticRegression
NoFit == [ok |-> FALSE, X_train |-> <<>>, y_train |-> <<>>,
          X_test |-> <<>>, y_test |-> <<>>]

\* a split that trains on the last samples and tests on the first
MlSplitTail(d, split) ==
    [ok |-> TRUE,
     X_train |-> SubSeq(d.X, Len(d.y) - split + 1, Len(d.y)),
     y_train |-> SubSeq(d.y, Len(d.y) - split + 1, Len(d.y)),
     X_test |-> SubSeq(d.X, 1, Len(d.y) - split),
     y_test |-> SubSeq(d.y, 1, Len(d.y) - split)]

\* X_train, y_train = X[:split], y[:split]; X_test, y_test = X[split:],
\* y[split:]
MlSplitAt(d, split) ==
    [ok |-> TRUE,
     X_train |-> SubSeq(d.X, 1, split), y_train |-> SubSeq(d.y, 1, split),
     X_test |-> SubSeq(d.X, split + 1, Len(d.y)),
     y_test |-> SubSeq(d.y, split + 1, Len(d.y))]

\* the sets a split leaves to fit and score on, unless a check returns None
MlChecked(f, m, split) ==
    IF split <= 0 \/ split >= m THEN NoFit
    ELSE IF SingleClass(f.y_train) THEN NoFit
    ELSE f

\* predictability_score up to the library calls: what model.fit and
\* model.predict are handed, or NoFit where the function returns None first
MlFit(bits, k, train_frac) ==
    IF k < 1 THEN NoFit
    ELSE IF MlInvalidFrac(train_frac) THEN NoFit
    ELSE IF ~ToSupervised(bits, k).ok THEN NoFit
    ELSE IF Len(bits) - k < 2 THEN NoFit
    ELSE MlChecked(MlSplitAt(ToSupervised(bits, k),
                             MlSplit(Len(bits) - k, train_frac)),
                   Len(bits) - k, MlSplit(Len(bits) - k, train_frac))

\* accuracy_score(y_test, y_hat): lib.lr_correct of the hold-out labels are
\* predicted
MlAccuracy(f, lib) ==
    IF ~f.ok THEN NoneP ELSE Round(lib.lr_correct * Scale, Len(f.y_test))

\* ml/predictor.py predictability_score with its train_frac argument
predictability_score_frac(bits, k, train_frac, lib) ==
    MlAccuracy(MlFit(bits, k, train_frac), lib)

(***************************************************************************)
(* main.py run_tests                                                       *)
(***************************************************************************)
\* the float literals of main.py
AccuracyMax == Round(55 * Scale, 100)       \* 0.55
CompressionMin == Round(95 * Scale, 100)    \* 0.95
EntropyMin == Round(98 * Scale, 100)        \* 0.98

\* _not_failed: True for True/None
NotFailedStrict(x) == x = "True"
NotFailed(x) == IF x = "False" THEN FALSE ELSE TRUE

\* reject_fdr = {name: (q is not None and q <= alpha)}
RejectFdr(qvals, alpha) ==
    [j \in 1..Len(qvals) |-> qvals[j][2] # NoneP /\ qvals[j][2] <= alpha]

\* the health tests as run_tests obtains them (lines 95-109)
Health(bits, alpha, rct_cutoff, apt_window) ==
    IF Len(bits) = 0
    THEN [rct |-> [kind |-> "return",
                   value |-> [pass |-> "None", max_run |-> 0,
                              cutoff |-> rct_cutoff, approx_p |-> NoneP]],
          apt |-> [kind |-> "return",
                   value |-> [pass |-> "None", window |-> apt_window,
                              alpha |-> alpha, lower |-> "None",
                              upper |-> "None", violations |-> <<>>]]]
    ELSE [rct |-> repetition_count_test(bits, rct_cutoff),
          apt |-> adaptive_proportion_test(bits, apt_window, alpha)]

run_tests(bits, block_size, ml_k, alpha, rct_cutoff, apt_window, lib) ==
    LET p_mono == mono_bit_pvalue(bits, lib)
        p_runs == runs_pvalue(bits, lib)
        p_blk == block_frequency_pvalue(bits, block_size, lib)
        p_apen == approximate_entropy_pvalue(bits, 2, lib)
        entropy == shannon_entropy_bits_per_bit(bits, lib)
        cr == compression_ratio(PackedLen(Len(bits)), lib)
        acc == predictability_score(bits, ml_k, lib)
        health == Health(bits, alpha, rct_cutoff, apt_window)
        rct == health.rct.value
        apt == health.apt.value
        pvals == << <<"mono_bit", p_mono>>, <<"runs", p_runs>>,
                    <<"block_frequency", p_blk>>, <<"approx_entropy", p_apen>> >>
        qvals == benjamini_hochberg(pvals)
        reject_fdr == RejectFdr(qvals, alpha)
        decisions ==
            [mono_bit_pass |-> p_mono > alpha,
             runs_pass |-> p_runs > alpha,
             block_frequency_pass |-> p_blk > alpha,
             approx_entropy_pass |-> p_apen > alpha,
             ml_pass |-> (acc = NoneP) \/ (acc <= AccuracyMax),
             compression_pass |-> cr >= CompressionMin,
             entropy_pass |-> entropy >= EntropyMin,
             rct_pass |-> rct.pass,
             apt_pass |-> apt.pass,
             overall_pass_fdr |->
                 /\ ~(\E j \in 1..Len(reject_fdr) : reject_fdr[j])
                 /\ NotFailed(rct.pass)
                 /\ NotFailed(apt.pass)]
    IN \* an exception of a health test leaves run_tests: nothing catches it
       IF health.rct.kind = "raise" THEN health.rct
       ELSE IF health.apt.kind = "raise" THEN health.apt
       ELSE [kind |-> "return",
             value |-> [mono_bit_p |-> p_mono,
                        runs_p |-> p_runs,
                        block_frequency_p |-> p_blk,
                        approx_entropy_p |-> p_apen,
                        shannon_entropy_bits_per_bit |-> entropy,
                        compression_ratio |-> cr,
                        ml_accuracy |-> acc,
                        health |-> [rct |-> rct, apt |-> apt],
                        pvals_raw |-> pvals,
                        pvals_fdr |-> qvals,
                        decisions |-> decisions,
                        alpha |-> alpha,
                        rct_cutoff |-> rct_cutoff,
                        apt_window |-> apt_window]]

(***************************************************************************)
(* Consumers of the result of run_tests: what each reports for the ML check *)
(***************************************************************************)
\* gui.py, the "ML Accuracy" metric: ml_status
GuiMlStatus(res) ==
    IF res.ml_accuracy = NoneP THEN "FAIL"
    ELSE IF res.decisions.ml_pass THEN "PASS" ELSE "FAIL"

\* main.py, the "ML Predictability" line of the markdown report
ReportMlLine(res) ==
    IF res.ml_accuracy # NoneP
    THEN (IF res.decisions.ml_pass THEN "PASS" ELSE "FAIL")
    ELSE "N/A"

\* main.py, "Interpretation": the comment on a predictable next bit
ReportMlComment(res) == ~res.decisions.ml_pass

\* util/report.py: the message on ML accuracy above 0.55
ExplainMl(res) == res.ml_accuracy # NoneP /\ ~res.decisions.ml_pass

\* advisor/rules.py: the advice on an ML predictor above 55% accuracy
AdviseMl(res) == res.decisions.ml_pass = FALSE

\* what the consumers show for one result
Rendered(res) ==
    [gui_ml_status |-> GuiMlStatus(res),
     report_ml_line |-> ReportMlLine(res),
     report_ml_comment |-> ReportMlComment(res),
     explain_ml |-> ExplainMl(res),
     advise_ml |-> AdviseMl(res)]

(***************************************************************************)
(* Bytes and bits: numpy packbits / unpackbits, main.py, gui.py            *)
(***************************************************************************)
\* a bytes object is a sequence of integers of 0..255
ByteBits == 8

\* a slice that keeps the whole sequence
PySliceAll(s, k) == s

\* seq[:k] of Python: the first k elements, or all but the last -k when k < 0
PySliceTo(s, k) ==
    LET stop == IF k >= 0 THEN (IF k < Len(s) THEN k ELSE Len(s))
                ELSE (IF Len(s) + k > 0 THEN Len(s) + k ELSE 0)
    IN SubSeq(s, 1, stop)

\* the concatenation of a sequence of sequences
RECURSIVE Flatten(_)
Flatten(ss) == IF ss = <<>> THEN <<>> ELSE Head(ss) \o Flatten(Tail(ss))

\* np.unpackbits(arr): numpy's default bitorder is "big", the first element
\* of a byte is its most significant bit
UnpackBig(raw) ==
    [t \in 1..(ByteBits * Len(raw)) |->
        (raw[((t - 1) \div ByteBits) + 1]
            \div Pow2(ByteBits - 1 - ((t - 1) % ByteBits))) % 2]

\* np.unpackbits(arr, bitorder="little"): the first element of a byte is its
\* least significant bit
UnpackLittle(raw) ==
    [t \in 1..(ByteBits * Len(raw)) |->
        (raw[((t - 1) \div ByteBits) + 1] \div Pow2((t - 1) % ByteBits)) % 2]

\* element t of b, or the zero np.packbits pads an incomplete last byte with
BitOrPad(b, t) == IF t <= Len(b) THEN b[t] ELSE 0

\* np.packbits(b, bitorder="big")
PackBig(b) ==
    [i \in 1..((Len(b) + ByteBits - 1) \div ByteBits) |->
        SumSeq([j \in 1..ByteBits |->
                    BitOrPad(b, ByteBits * (i - 1) + j) * Pow2(ByteBits - j)])]

\* np.packbits(b, bitorder="little")
PackLittle(b) ==
    [i \in 1..((Len(b) + ByteBits - 1) \div ByteBits) |->
        SumSeq([j \in 1..ByteBits |->
                    BitOrPad(b, ByteBits * (i - 1) + j) * Pow2(j - 1)])]

\* rem = (-n) % 8: zeros to add to complete the final byte
PadToByte(n) == (-n) % ByteBits

\* main.py _pack_bits_little
pack_bits_little(bits) ==
    LET n == Len(bits)
        rem == PadToByte(n)
        b == bits \o [j \in 1..rem |-> 0]
    IN IF n = 0 THEN <<>> ELSE PackLittle(b)

\* gui.py _bits_from_bytes
bits_from_bytes(raw, n_bits) ==
    IF Len(raw) = 0 THEN <<>> ELSE PySliceTo(UnpackBig(raw), n_bits)

(***************************************************************************)
(* Python integers of up to 32 bits and more                               *)
(*                                                                         *)
(* An integer the generators compute with is the pair <<hi, lo>> that      *)
(* stands for hi * 2^16 + lo with 0 <= lo < 2^16; hi is any integer, so    *)
(* negative and wider-than-32-bit seeds have a pair too.                   *)
(***************************************************************************)
Limb == Pow2(16)

\* the pair of an integer literal below 2^31
ToBig(n) == <<n \div Limb, n % Limb>>

\* (x >> i) & 1 of a 32-bit integer
BitOf(x, i) ==
    IF i < 16 THEN (x[2] \div Pow2(i)) % 2 ELSE (x[1] \div Pow2(i - 16)) % 2

\* x & mask for a mask 2^k - 1 (k <= 32): the k low bits of x, for an x of
\* either sign
AndMask(x, mask) == <<x[1] % (mask[1] + 1), x[2] % (mask[2] + 1)>>

\* the product of two integers of 0..2^16-1
Prod16(x, y) ==
    LET p0 == (x % 256) * y
        p1 == (x \div 256) * y
        lo == (p0 % Limb) + (p1 % 256) * 256
    IN <<p0 \div Limb + p1 \div 256 + lo \div Limb, lo % Limb>>

\* the 32 low bits of a * s + c, for a, s, c of 0..2^32-1
MulAdd32(a, s, c) ==
    LET p == Prod16(a[2], s[2])
        lo == p[2] + c[2]
    IN <<(p[1] + Prod16(a[2], s[1])[2] + Prod16(a[1], s[2])[2] + c[1]
             + lo \div Limb) % Limb,
         lo % Limb>>

\* x % m for a modulus m of 1..2^15-1 given as a plain integer
ModSmall(x, m) == ((((x[1] % m) * (Limb % m)) % m) + (x[2] % m)) % m

RECURSIVE IsPow2(_)
IsPow2(n) == n = 1 \/ (n > 1 /\ n % 2 = 0 /\ IsPow2(n \div 2))

(***************************************************************************)
(* sources/lcg.py                                                          *)
(***************************************************************************)
\* no mask: the modulus is not a power of two
NoMask == <<-1, -1>>

\* m & (m - 1) == 0, for m >= 1
LcgPow2(m) == (m[1] = 0 /\ IsPow2(m[2])) \/ (m[2] = 0 /\ IsPow2(m[1]))

\* m - 1 of a power of two
LcgMaskOf(m) == IF m[1] = 0 THEN <<0, m[2] - 1>> ELSE <<m[1] - 1, Limb - 1>>

\* an LCG whose state is kept on the class: an instance created while another
\* one is alive does not start from its own seed
LcgSharedState(seed, a, c, m) ==
    LET mask == IF LcgPow2(m) THEN LcgMaskOf(m) ELSE NoMask
        own == IF mask # NoMask THEN AndMask(seed, mask)
               ELSE <<0, ModSmall(seed, m[2])>>
    IN [cls |-> "LCG", a |-> a, c |-> c, m |-> m, mask |-> mask,
        state |-> IF source.cls = "LCG"
                  THEN <<source.state[1],
                         source.state[2] + 1 - 2 * (source.state[2] % 2)>>
                  ELSE own]

\* LCG.__init__
LCG(seed, a, c, m) ==
    LET mask == IF LcgPow2(m) THEN LcgMaskOf(m) ELSE NoMask
    IN [cls |-> "LCG", a |-> a, c |-> c, m |-> m, mask |-> mask,
        state |-> IF mask # NoMask THEN AndMask(seed, mask)
                  ELSE <<0, ModSmall(seed, m[2])>>]

\* the recurrence without its increment: state = (a * state) mod m
LcgAdvanceNoIncrement(g) ==
    IF g.mask # NoMask
    THEN [g EXCEPT !.state = AndMask(MulAdd32(g.a, g.state, <<0, 0>>), g.mask)]
    ELSE [g EXCEPT !.state =
            <<0, (ModSmall(g.a, g.m[2]) * g.state[2]) % g.m[2]>>]

\* LCG._advance
LcgAdvance(g) ==
    IF g.mask # NoMask
    THEN [g EXCEPT !.state = AndMask(MulAdd32(g.a, g.state, g.c), g.mask)]
    ELSE [g EXCEPT !.state =
            <<0, (ModSmall(g.a, g.m[2]) * g.state[2] + ModSmall(g.c, g.m[2]))
                    % g.m[2]>>]

\* LCG.next_bit
LcgNextBit(g) ==
    LET h == LcgAdvance(g)
    IN [src |-> h, value |-> h.state[2] % 2]

\* one unrolled step of a byte of LCG.next_bytes: s = advance(s), then
\* b |= (s & 1) << j, after the steps that gave p
LcgOrBit(p, j) ==
    LET h == LcgAdvance(p.src)
    IN [value |-> p.value + (h.state[2] % 2) * Pow2(j), src |-> h]

\* the first j of the eight unrolled steps of one byte of LCG.next_bytes
RECURSIVE LcgByte(_, _)
LcgByte(g, j) ==
    IF j = 0 THEN [src |-> g, value |-> 0]
    ELSE LcgOrBit(LcgByte(g, j - 1), j - 1)

\* out[i] = b, after the bytes that gave p
LcgAppendByte(p) ==
    LET b == LcgByte(p.src, ByteBits)
    IN [value |-> p.value \o <<b.value>>, src |-> b.src]

\* LCG.next_bytes
RECURSIVE LcgNextBytes(_, _)
LcgNextBytes(g, n) ==
    IF n <= 0 THEN [src |-> g, value |-> <<>>]
    ELSE LcgAppendByte(LcgNextBytes(g, n - 1))

(***************************************************************************)
(* sources/xorshift.py                                                     *)
(***************************************************************************)
WordBits == 32

\* 2463534242, the seed that replaces 0
XsDefaultSeed == <<37590, 36002>>

\* a 32-bit word is the sequence of its bits, w[i + 1] = (w >> i) & 1
WordOf(x) == [i \in 1..WordBits |-> BitOf(x, i - 1)]

\* XorShift32.__init__
XorShift32(seed) ==
    LET s == IF seed = <<0, 0>> THEN XsDefaultSeed ELSE seed
    IN [cls |-> "XorShift32", state |-> WordOf(<<s[1] % Limb, s[2]>>),
        word |-> WordOf(<<0, 0>>), bit_i |-> WordBits]

\* x ^= (x << k) & 0xFFFFFFFF
XorShl(x, k) ==
    [i \in 1..WordBits |-> IF i > k THEN (x[i] + x[i - k]) % 2 ELSE x[i]]

\* x ^= x >> k
XorShr(x, k) ==
    [i \in 1..WordBits |->
        IF i + k <= WordBits THEN (x[i] + x[i + k]) % 2 ELSE x[i]]

\* (w >> (8 * k)) & 0xFF of a word, k in 0..3
ByteOf(w, k) ==
    SumSeq([j \in 1..ByteBits |-> w[ByteBits * k + j] * Pow2(j - 1)])

\* XorShift32._next_u32
XsNextU32(x0) == XorShl(XorShr(XorShl(x0, 13), 17), 5)

\* self._state = x; self._word = x; self._bit_i = 0
XsLoadWord(g, x) == [g EXCEPT !.state = x, !.word = x, !.bit_i = 0]

\* XorShift32._refill_word
XsRefillWord(g) == XsLoadWord(g, XsNextU32(g.state))

\* if self._bit_i >= 32: self._refill_word()
XsEnsureWord(g) == IF g.bit_i >= WordBits THEN XsRefillWord(g) ELSE g

\* bit = (self._word >> self._bit_i) & 1; self._bit_i += 1
XsTakeBit(h) ==
    [src |-> [h EXCEPT !.bit_i = h.bit_i + 1], value |-> h.word[h.bit_i + 1]]

\* XorShift32.next_bit
XsNextBit(g) == XsTakeBit(XsEnsureWord(g))

\* b |= self.next_bit() << j, after the steps that gave p
XsOrBit(p, j) ==
    LET b == XsNextBit(p.src)
    IN [value |-> p.value + b.value * Pow2(j), src |-> b.src]

\* the first j steps of one byte of the slow path
RECURSIVE XsSlowByte(_, _)
XsSlowByte(g, j) ==
    IF j = 0 THEN [src |-> g, value |-> 0]
    ELSE XsOrBit(XsSlowByte(g, j - 1), j - 1)

\* out[i] = b, after the bytes that gave p
XsAppendByte(p) ==
    LET b == XsSlowByte(p.src, ByteBits)
    IN [value |-> p.value \o <<b.value>>, src |-> b.src]

\* the slow path of next_bytes: for i in range(n)
RECURSIVE XsSlow(_, _)
XsSlow(g, n) ==
    IF n <= 0 THEN [src |-> g, value |-> <<>>]
    ELSE XsAppendByte(XsSlow(g, n - 1))

\* the fast path of next_bytes: while i < n, with n the bytes still to fill
RECURSIVE XsFast(_, _)
RECURSIVE XsFastTake(_, _)
XsFast(g, n) ==
    IF n <= 0 THEN [src |-> g, value |-> <<>>]
    ELSE XsFastTake(XsEnsureWord(g), n)

\* one round of the fast path, on a word that has bytes left
XsFastTake(h, n) ==
    LET byte_off == h.bit_i \div ByteBits
        can_take == 4 - byte_off
        take == IF n < can_take THEN n ELSE can_take
        r == XsFast([h EXCEPT !.bit_i = h.bit_i + ByteBits * take], n - take)
    IN [value |-> [j \in 1..take |-> ByteOf(h.word, byte_off + j - 1)]
                      \o r.value,
        src |-> r.src]

\* a next_bytes that takes the fast path whatever the bit position
XsNextBytesFastOnly(g, n) ==
    IF n <= 0 THEN [src |-> g, value |-> <<>>]
    ELSE XsFast(g, n)

\* XorShift32.next_bytes
XsNextBytes(g, n) ==
    IF n <= 0 THEN [src |-> g, value |-> <<>>]
    ELSE IF g.bit_i % ByteBits = 0 THEN XsFast(g, n)
    ELSE XsSlow(g, n)

(***************************************************************************)
(* sources/os_random.py                                                    *)
(*                                                                         *)
(* os.urandom is the environment: every operation takes the sequence rand  *)
(* of buffers that os.urandom returns next, and gives back in rest the     *)
(* buffers it has not asked for.                                           *)
(***************************************************************************)
\* OSRandom.__init__
OSRandom == [cls |-> "OSRandom", buf |-> <<>>, byte_i |-> 0, bit_i |-> 0]

\* OSRandom._refill
OsRefill(g, rand) ==
    [src |-> [g EXCEPT !.buf = Head(rand), !.byte_i = 0, !.bit_i = 0],
     rest |-> Tail(rand)]

\* OSRandom._ensure_byte_available
OsEnsure(g, rand) ==
    IF g.byte_i >= Len(g.buf) THEN OsRefill(g, rand)
    ELSE [src |-> g, rest |-> rand]

\* a next_bit that reads a byte from its most significant bit down
OsNextBitMsb(g, rand) ==
    LET e == OsEnsure(g, rand)
        h == e.src
        bit == (h.buf[h.byte_i + 1] \div Pow2(ByteBits - 1 - h.bit_i)) % 2
    IN [src |-> IF h.bit_i + 1 = ByteBits
                THEN [h EXCEPT !.bit_i = 0, !.byte_i = h.byte_i + 1]
                ELSE [h EXCEPT !.bit_i = h.bit_i + 1],
        value |-> bit, rest |-> e.rest]

\* OSRandom.next_bit
OsNextBit(g, rand) ==
    LET e == OsEnsure(g, rand)
        h == e.src
        bit == (h.buf[h.byte_i + 1] \div Pow2(h.bit_i)) % 2
    IN [src |-> IF h.bit_i + 1 = ByteBits
                THEN [h EXCEPT !.bit_i = 0, !.byte_i = h.byte_i + 1]
                ELSE [h EXCEPT !.bit_i = h.bit_i + 1],
        value |-> bit, rest |-> e.rest]

\* b |= self.next_bit() << j, after the steps that gave p
OsOrBit(p, j) ==
    LET b == OsNextBit(p.src, p.rest)
    IN [value |-> p.value + b.value * Pow2(j), src |-> b.src, rest |-> b.rest]

\* the first j steps of one byte of the slow path
RECURSIVE OsSlowByte(_, _, _)
OsSlowByte(g, j, rand) ==
    IF j = 0 THEN [src |-> g, value |-> 0, rest |-> rand]
    ELSE OsOrBit(OsSlowByte(g, j - 1, rand), j - 1)

\* out[i] = b, after the bytes that gave p
OsAppendByte(p) ==
    LET b == OsSlowByte(p.src, ByteBits, p.rest)
    IN [value |-> p.value \o <<b.value>>, src |-> b.src, rest |-> b.rest]

\* the slow path of next_bytes: for i in range(n)
RECURSIVE OsSlow(_, _, _)
OsSlow(g, n, rand) ==
    IF n <= 0 THEN [src |-> g, value |-> <<>>, rest |-> rand]
    ELSE OsAppendByte(OsSlow(g, n - 1, rand))

\* the fast path of next_bytes: while filled < n, with n the bytes to fill
RECURSIVE OsFast(_, _, _)
OsFast(g, n, rand) ==
    IF n <= 0 THEN [src |-> g, value |-> <<>>, rest |-> rand]
    ELSE LET e == OsEnsure(g, rand)
             h == e.src
             remain == Len(h.buf) - h.byte_i
             take == IF n < remain THEN n ELSE remain
             r == OsFast([h EXCEPT !.byte_i = h.byte_i + take], n - take,
                         e.rest)
         IN [src |-> r.src,
             value |-> SubSeq(h.buf, h.byte_i + 1, h.byte_i + take) \o r.value,
             rest |-> r.rest]

\* OSRandom.next_bytes
OsNextBytes(g, n, rand) ==
    IF n <= 0 THEN [src |-> g, value |-> <<>>, rest |-> rand]
    ELSE IF g.bit_i = 0 THEN OsFast(g, n, rand)
    ELSE OsSlow(g, n, rand)

(***************************************************************************)
(* The BitSource protocol and main.py bits_from_source                     *)
(***************************************************************************)
\* src.next_bit()
next_bit(src, rand) ==
    IF src.cls = "LCG" THEN LcgNextBit(src) @@ [rest |-> rand]
    ELSE IF src.cls = "XorShift32" THEN XsNextBit(src) @@ [rest |-> rand]
    ELSE OsNextBit(src, rand)

\* src.next_bytes(n)
next_bytes(src, n, rand) ==
    IF src.cls = "LCG" THEN LcgNextBytes(src, n) @@ [rest |-> rand]
    ELSE IF src.cls = "XorShift32" THEN XsNextBytes(src, n) @@ [rest |-> rand]
    ELSE OsNextBytes(src, n, rand)

\* hasattr(src, "next_bytes"): every source class of the repository has it
HasNextBytes(src) == src.cls \in {"LCG", "XorShift32", "OSRandom"}

\* (src.next_bit() for _ in range(n)): n successive next_bit() calls, the
\* first n \div 2 of them and then the others
RECURSIVE NextBits(_, _, _)
NextBits(src, n, rand) ==
    IF n <= 0 THEN [src |-> src, value |-> <<>>, rest |-> rand]
    ELSE IF n = 1
    THEN LET b == next_bit(src, rand)
         IN [src |-> b.src, value |-> <<b.value>>, rest |-> b.rest]
    ELSE LET h == NextBits(src, n \div 2, rand)
             r == NextBits(h.src, n - Len(h.value), h.rest)
         IN [src |-> r.src, value |-> h.value \o r.value, rest |-> r.rest]

\* the bytes raw unpacked at numpy's default bit order
UnpackedBig(raw, n_bits) ==
    [src |-> raw.src, value |-> PySliceTo(UnpackBig(raw.value), n_bits),
     rest |-> raw.rest, pulled |-> UnpackLittle(raw.value)]

\* np.unpackbits(np.frombuffer(raw, dtype=np.uint8), bitorder="little")
\* [:n_bits]; pulled is what the call made the source emit
Unpacked(raw, n_bits) ==
    [src |-> raw.src, value |-> PySliceTo(UnpackLittle(raw.value), n_bits),
     rest |-> raw.rest, pulled |-> UnpackLittle(raw.value)]

\* np.fromiter((src.next_bit() for _ in range(n_bits)), ...)
Iterated(r) == r @@ [pulled |-> r.value]

\* a materialization that draws bit by bit and discards nothing
bits_from_source_bitwise(src, n_bits, rand) ==
    IF n_bits <= 0
    THEN [src |-> src, value |-> <<>>, rest |-> rand, pulled |-> <<>>]
    ELSE Iterated(NextBits(src, n_bits, rand))

\* main.py bits_from_source
bits_from_source(src, n_bits, rand) ==
    IF n_bits <= 0
    THEN [src |-> src, value |-> <<>>, rest |-> rand, pulled |-> <<>>]
    ELSE IF HasNextBytes(src)
    THEN Unpacked(next_bytes(src, (n_bits + 7) \div 8, rand), n_bits)
    ELSE Iterated(NextBits(src, n_bits, rand))

(***************************************************************************)
(* Inputs                                                                  *)
(***************************************************************************)
\* p-values a caller may put in a dict: the floats of [0, 1], or None
PInputs == PGrid \cup {NoneP}

\* significance levels: floats of (0, 1) and the invalid 0, 1, negative, > 1
AlphaInputs == {-One \div 4, 0, 1, One \div 4, One \div 2, 3 * (One \div 4),
                One, One + One \div 4}

Cutoffs == 0..MaxCutoff
Windows == (-1)..MaxWindow

\* the parameters run_tests is tried with
RunAlphas == {0, One \div 4, 3 * (One \div 4), One}
RunCutoffs == {1, 2, MaxCutoff}
RunWindows == {0, 2, MaxRunLen + 1}
BlockSizes == {0, 2}
MlKs == {0, 1}

\* values erfc, gammaincc and log2 return strictly between 0 and 1
LibOpen == {One \div 4, 3 * (One \div 4)}

\* no library value
LibNone == [erfc_mono |-> 0, erfc_runs |-> 0, gammaincc_blk |-> 0,
            gammaincc_apen |-> 0, log2_entropy |-> 0, zlib_len |-> 0,
            lr_correct |-> 0]

\* what the library calls reached on this input return; a call that is not
\* reached, or whose value is exact, has the field 0.  zlib at level 9 stores
\* an input of one or two bytes in the input's length plus 8 bytes.
LibOutcomes(bits, block_size, ml_k) ==
    LET n == Len(bits)
        m == n - ml_k
    IN [erfc_mono : IF MonoExact(bits) THEN {0} ELSE LibOpen,
        erfc_runs : IF RunsExact(bits) THEN {0} ELSE LibOpen,
        gammaincc_blk : IF BlockExact(bits, block_size) THEN {0} ELSE LibOpen,
        gammaincc_apen : IF ApEnExact(bits, 2) THEN {0} ELSE LibOpen \cup {One},
        log2_entropy : IF EntropyExact(bits) THEN {0} ELSE LibOpen,
        zlib_len : IF n = 0 THEN {0} ELSE {PackedLen(n) + 8},
        lr_correct : IF MlNotApplicable(bits, ml_k) THEN {0}
                     ELSE 0..(m - Split(m))]

\* keys of the dict handed to benjamini_hochberg
Keys == <<"a", "b", "c", "d", "e", "f">>
KeyIndex(name) == CHOOSE j \in 1..Len(Keys) : Keys[j] = name

\* integer seeds handed to the generators: 0, 1, 42, -1 and 2^32
Seeds == {<<0, 0>>, <<0, 1>>, <<0, 42>>, <<-1, Limb - 1>>, <<Limb, 0>>}

\* (a, c, m) of an LCG: the defaults of the constructor, a small power-of-two
\* modulus and a small modulus that is not a power of two
LcgParams == {[a |-> ToBig(1664525), c |-> ToBig(1013904223), m |-> <<Limb, 0>>],
              [a |-> ToBig(5), c |-> ToBig(3), m |-> ToBig(16)],
              [a |-> ToBig(5), c |-> ToBig(3), m |-> ToBig(7)]}

\* what os.urandom(4096) may return: UrandomLen bytes of these values
UrandomValues == {1, 178}
Buffers == [1..UrandomLen -> UrandomValues]

\* the buffers os.urandom returns to the first and to the second refill of
\* an OSRandom object
Tapes == [1..2 -> Buffers]

\* byte and bit counts a caller asks for
ByteCounts == (-1)..MaxBytes
BitCounts == {-1, 0, 1, 2, ByteBits - 1, ByteBits, ByteBits + 1,
              ByteBits * (MaxBytes - 1) + 1}

\* byte payloads of an uploaded file or a hex string
PayloadValues == {0, 1, 128, 178, 255}
Payloads == UNION {[1..k -> PayloadValues] : k \in 0..MaxBytes}

\* k ones followed by n - k zeros
OnesThenZeros(n, k) == [t \in 1..n |-> IF t <= k THEN 1 ELSE 0]

\* first, 1 - first, first, ...
Alternating(n, first) == [t \in 1..n |-> IF t % 2 = 1 THEN first ELSE 1 - first]

\* sequences handed to a p-value test: every short one, and long ones of
\* the two shapes above
MetricInputs ==
    BitSeqs(MaxLen)
        \cup UNION {{OnesThenZeros(n, k) : k \in 0..n} : n \in 0..MaxLongLen}
        \cup {Alternating(n, f) : n \in 0..MaxLongLen, f \in {0, 1}}

\* block sizes and pattern lengths a caller asks for
MetricBlockSizes == (-1)..(MaxLen + 1)
PatternLens == 1..MaxLen

(***************************************************************************)
(* The state machine: one action per entry point                           *)
(*                                                                         *)
(* source is the generator object in use (NoSource when there is none),   *)
(* hist what has been observed of it since it was constructed: the object  *)
(* as constructed, every bit it has emitted (bytes expanded LSB-first),    *)
(* every byte os.urandom has handed to it, and in tape the buffers that    *)
(* os.urandom returns to the refills still to come.                        *)
(***************************************************************************)
NoSource == [cls |-> "none"]
NoHist == [made |-> NoSource, out |-> <<>>, drawn |-> <<>>, tape |-> <<>>]

Init ==
    /\ op = "none"
    /\ args = <<>>
    /\ ret = <<>>
    /\ source = NoSource
    /\ hist = NoHist

\* no call is in progress
Idle == op = "none"

\* a generator has been constructed
Alive == source.cls # "none"

CallRct ==
    /\ Idle
    /\ \E bits \in BitSeqs(MaxLen), cutoff \in Cutoffs :
        /\ op' = "repetition_count_test"
        /\ args' = [bits |-> bits, cutoff |-> cutoff]
        /\ ret' = repetition_count_test(bits, cutoff)
        /\ UNCHANGED <<source, hist>>

CallApt ==
    /\ Idle
    /\ \E bits \in BitSeqs(MaxLen), window \in Windows, alpha \in AlphaInputs :
        /\ op' = "adaptive_proportion_test"
        /\ args' = [bits |-> bits, window |-> window, alpha |-> alpha]
        /\ ret' = adaptive_proportion_test(bits, window, alpha)
        /\ UNCHANGED <<source, hist>>

CallBH ==
    /\ Idle
    /\ \E k \in 0..MaxTests :
        \E ps \in [1..k -> PInputs] :
            LET pdict == [j \in 1..k |-> <<Keys[j], ps[j]>>]
            IN /\ op' = "benjamini_hochberg"
               /\ args' = [pdict |-> pdict]
               /\ ret' = [kind |-> "return", value |-> benjamini_hochberg(pdict)]
               /\ UNCHANGED <<source, hist>>

\* p-values of a dict whose insertion order is varied
OrderPs == {NoneP, 0, One \div 4, 3 * (One \div 8), One \div 2, One}

\* the orders in which k entries can be inserted
InsertionOrders(k) ==
    {f \in [1..k -> 1..k] : \A i, j \in 1..k : f[i] = f[j] => i = j}

\* benjamini_hochberg on a dict whose names were inserted in any order
CallBHAnyOrder ==
    /\ Idle
    /\ \E k \in 0..MaxTests :
        \E ps \in [1..k -> OrderPs], order \in InsertionOrders(k) :
            LET pdict == [j \in 1..k |-> <<Keys[order[j]], ps[j]>>]
            IN /\ op' = "benjamini_hochberg"
               /\ args' = [pdict |-> pdict]
               /\ ret' = [kind |-> "return", value |-> benjamini_hochberg(pdict)]
               /\ UNCHANGED <<source, hist>>

CallRunTests ==
    /\ Idle
    /\ \E bits \in BitSeqs(MaxRunLen), block_size \in BlockSizes, ml_k \in MlKs,
          alpha \in RunAlphas, rct_cutoff \in RunCutoffs,
          apt_window \in RunWindows :
        \* the library values are enumerated only where they reach the result
        \E lib \in IF run_tests(bits, block_size, ml_k, alpha, rct_cutoff,
                                apt_window, LibNone).kind = "raise"
                    THEN {LibNone}
                    ELSE LibOutcomes(bits, block_size, ml_k) :
            /\ op' = "run_tests"
            /\ args' = [bits |-> bits, block_size |-> block_size, ml_k |-> ml_k,
                        alpha |-> alpha, rct_cutoff |-> rct_cutoff,
                        apt_window |-> apt_window, lib |-> lib]
            /\ ret' = run_tests(bits, block_size, ml_k, alpha, rct_cutoff,
                                apt_window, lib)
            /\ UNCHANGED <<source, hist>>

\* the bytes os.urandom has handed out during a call
Drawn(rand, rest) == Flatten(SubSeq(rand, 1, Len(rand) - Len(rest)))

\* the generator can emit k more bits within the bounds of the model
CanEmit(k) ==
    /\ Len(hist.out) + k <= MaxOut
    /\ source.cls = "OSRandom" =>
          Len(hist.out) + k
              <= ByteBits * (Len(hist.drawn) + UrandomLen * Len(hist.tape))

\* what a call that returned r leaves behind
Observed(r, emitted) ==
    /\ source' = r.src
    /\ hist' = [hist EXCEPT !.out = @ \o emitted,
                            !.drawn = @ \o Drawn(hist.tape, r.rest),
                            !.tape = r.rest]

Construct(name, a, obj, tape) ==
    /\ Idle
    /\ op' = name
    /\ args' = a
    /\ ret' = [kind |-> "return", value |-> "None"]
    /\ source' = obj
    /\ hist' = [made |-> obj, out |-> <<>>, drawn |-> <<>>, tape |-> tape]

MakeLCG ==
    \E seed \in Seeds, p \in LcgParams :
        Construct("LCG", [seed |-> seed, a |-> p.a, c |-> p.c, m |-> p.m],
                  LCG(seed, p.a, p.c, p.m), <<>>)

MakeXorShift32 ==
    \E seed \in Seeds :
        Construct("XorShift32", [seed |-> seed], XorShift32(seed), <<>>)

MakeOSRandom == \E tape \in Tapes : Construct("OSRandom", <<>>, OSRandom, tape)

CallNextBit ==
    /\ Alive
    /\ CanEmit(1)
    /\ LET r == next_bit(source, hist.tape)
       IN /\ op' = "next_bit"
          /\ args' = [self |-> source]
          /\ ret' = [kind |-> "return", value |-> r.value]
          /\ Observed(r, <<r.value>>)

CallNextBytes ==
    /\ Alive
    /\ \E n \in ByteCounts :
        /\ CanEmit(ByteBits * n)
        /\ LET r == next_bytes(source, n, hist.tape)
           IN /\ op' = "next_bytes"
              /\ args' = [self |-> source, n |-> n]
              /\ ret' = [kind |-> "return", value |-> r.value]
              /\ Observed(r, UnpackLittle(r.value))

CallBitsFromSource ==
    /\ Alive
    /\ \E n_bits \in BitCounts :
        /\ CanEmit(n_bits + ByteBits - 1)
        /\ LET r == bits_from_source(source, n_bits, hist.tape)
           IN /\ op' = "bits_from_source"
              /\ args' = [src |-> source, n_bits |-> n_bits]
              /\ ret' = [kind |-> "return", value |-> r.value]
              /\ Observed(r, r.pulled)

CallBitsFromBytes ==
    /\ Idle
    /\ \E raw \in Payloads, n_bits \in BitCounts :
        /\ op' = "_bits_from_bytes"
        /\ args' = [raw |-> raw, n_bits |-> n_bits]
        /\ ret' = [kind |-> "return", value |-> bits_from_bytes(raw, n_bits)]
        /\ UNCHANGED <<source, hist>>

CallPackBits ==
    /\ Idle
    /\ \E bits \in BitSeqs(MaxPackLen) :
        /\ op' = "_pack_bits_little"
        /\ args' = [bits |-> bits]
        /\ ret' = [kind |-> "return", value |-> pack_bits_little(bits)]
        /\ UNCHANGED <<source, hist>>

\* the library value of one call: field f is what the library returns when
\* the call is reached with an argument whose value is not exact
LibOf(f, exact) ==
    {[LibNone EXCEPT ![f] = v] : v \in IF exact THEN {0} ELSE LibOpen}

CallMonoBit ==
    /\ Idle
    /\ \E bits \in MetricInputs :
        \E lib \in LibOf("erfc_mono", MonoExact(bits)) :
            /\ op' = "mono_bit_pvalue"
            /\ args' = [bits |-> bits, lib |-> lib]
            /\ ret' = [kind |-> "return", value |-> mono_bit_pvalue(bits, lib)]
            /\ UNCHANGED <<source, hist>>

CallMonobit ==
    /\ Idle
    /\ \E bits \in MetricInputs :
        \E lib \in LibOf("erfc_mono", MonoExact(bits)) :
            /\ op' = "monobit_pvalue"
            /\ args' = [bits |-> bits, lib |-> lib]
            /\ ret' = [kind |-> "return", value |-> monobit_pvalue(bits, lib)]
            /\ UNCHANGED <<source, hist>>

CallRuns ==
    /\ Idle
    /\ \E bits \in MetricInputs :
        \E lib \in LibOf("erfc_runs", RunsExact(bits)) :
            /\ op' = "runs_pvalue"
            /\ args' = [bits |-> bits, lib |-> lib]
            /\ ret' = [kind |-> "return", value |-> runs_pvalue(bits, lib)]
            /\ UNCHANGED <<source, hist>>

CallBlockFrequency ==
    /\ Idle
    /\ \E bits \in BitSeqs(MaxLen), M \in MetricBlockSizes :
        \E lib \in LibOf("gammaincc_blk", BlockExact(bits, M)) :
            /\ op' = "block_frequency_pvalue"
            /\ args' = [bits |-> bits, M |-> M, lib |-> lib]
            /\ ret' = [kind |-> "return",
                       value |-> block_frequency_pvalue(bits, M, lib)]
            /\ UNCHANGED <<source, hist>>

CallApproxEntropy ==
    /\ Idle
    /\ \E bits \in BitSeqs(MaxLen), m \in PatternLens :
        \E lib \in LibOf("gammaincc_apen", ApEnExact(bits, m)) :
            /\ op' = "approximate_entropy_pvalue"
            /\ args' = [bits |-> bits, m |-> m, lib |-> lib]
            /\ ret' = [kind |-> "return",
                       value |-> approximate_entropy_pvalue(bits, m, lib)]
            /\ UNCHANGED <<source, hist>>

\* train_frac arguments: the floats of [0, 1] and a value above 1
TrainFracs == PGrid \cup {One + One \div 4}

\* k arguments of predictability_score
MlHistories == 0..MaxLen

CallPredictability ==
    /\ Idle
    /\ \E bits \in BitSeqs(MaxLen), k \in MlHistories, train_frac \in TrainFracs :
        \E correct \in 0..Len(MlFit(bits, k, train_frac).y_test) :
            /\ op' = "predictability_score"
            /\ args' = [bits |-> bits, k |-> k, train_frac |-> train_frac,
                        lib |-> [LibNone EXCEPT !.lr_correct = correct]]
            /\ ret' = [kind |-> "return",
                       value |-> predictability_score_frac(
                                    bits, k, train_frac,
                                    [LibNone EXCEPT !.lr_correct = correct]),
                       fit |-> MlFit(bits, k, train_frac)]
            /\ UNCHANGED <<source, hist>>

\* the result run_tests returned is handed to the report, the dashboard and
\* the advisor
CallRender ==
    /\ op = "run_tests"
    /\ ret.kind = "return"
    /\ op' = "render"
    /\ args' = [results |-> ret.value]
    /\ ret' = [kind |-> "return", value |-> Rendered(ret.value)]
    /\ UNCHANGED <<source, hist>>

\* the caller has consumed the result and dropped the generator; nothing is
\* kept between calls
\* a second run_tests call on the array and the parameters of the call that
\* has just returned; the libraries answer the same arguments the same way
\* (zlib and scipy are functions, LogisticRegression has random_state=0)
CallRunTestsAgain ==
    /\ op = "run_tests"
    /\ op' = "run_tests_again"
    /\ args' = args
    /\ ret' = run_tests(args.bits, args.block_size, args.ml_k, args.alpha,
                        args.rct_cutoff, args.apt_window, args.lib)
    /\ UNCHANGED <<source, hist>>

Discard ==
    /\ ~Idle
    /\ op' = "none"
    /\ args' = <<>>
    /\ ret' = <<>>
    /\ source' = NoSource
    /\ hist' = NoHist

Next ==
    \/ CallRct \/ CallApt \/ CallBH \/ CallRunTests
    \/ MakeLCG \/ MakeXorShift32 \/ MakeOSRandom
    \/ CallNextBit \/ CallNextBytes \/ CallBitsFromSource
    \/ CallBitsFromBytes \/ CallPackBits
    \/ CallMonoBit \/ CallMonobit \/ CallRuns
    \/ CallBlockFrequency \/ CallApproxEntropy
    \/ Discard

Spec == Init /\ [][Next]_vars

\* the health tests called on their own
NextHealth == CallRct \/ CallApt \/ Discard
SpecHealth == Init /\ [][NextHealth]_vars

\* benjamini_hochberg called on its own
NextFdr == CallBH \/ Discard
SpecFdr == Init /\ [][NextFdr]_vars

\* run_tests
NextRun == CallRunTests \/ Discard
SpecRun == Init /\ [][NextRun]_vars

\* the health tests and run_tests
NextVerdict == CallRct \/ CallApt \/ CallRunTests \/ Discard
SpecVerdict == Init /\ [][NextVerdict]_vars

\* the generators and the materialization of bits
NextSource ==
    \/ MakeLCG \/ MakeXorShift32 \/ MakeOSRandom
    \/ CallNextBit \/ CallNextBytes \/ CallBitsFromSource
    \/ CallBitsFromBytes
    \/ Discard
SpecSource == Init /\ [][NextSource]_vars

\* _pack_bits_little
NextPack == CallPackBits \/ Discard
SpecPack == Init /\ [][NextPack]_vars

\* the p-value tests called on their own
NextMetric ==
    \/ CallMonoBit \/ CallMonobit \/ CallRuns
    \/ CallBlockFrequency \/ CallApproxEntropy
    \/ Discard
SpecMetric == Init /\ [][NextMetric]_vars

NextMl == CallPredictability \/ Discard
SpecMl == Init /\ [][NextMl]_vars

NextRender == CallRunTests \/ CallRender \/ Discard
SpecRender == Init /\ [][NextRender]_vars

\* benjamini_hochberg on every insertion order
NextFdrOrder == CallBHAnyOrder \/ Discard
SpecFdrOrder == Init /\ [][NextFdrOrder]_vars

\* repeated construction and repeated evaluation
NextRepeat ==
    \/ MakeLCG \/ CallBitsFromSource
    \/ CallRunTests \/ CallRunTestsAgain
    \/ Discard
SpecRepeat == Init /\ [][NextRepeat]_vars

(***************************************************************************)
(* Properties                                                              *)
(***************************************************************************)
RctCalled == op = "repetition_count_test"
AptCalled == op = "adaptive_proportion_test"
BHCalled == op = "benjamini_hochberg"
RunCalled == op = "run_tests"
Returned == ~Idle /\ ret.kind = "return"
Raised == ~Idle /\ ret.kind = "raise"

\* the lengths of the runs of identical consecutive bits
RunLengths(bits) ==
    {L \in 1..Len(bits) :
        \E s \in 1..(Len(bits) - L + 1) :
            \A t \in s..(s + L - 1) : bits[t] = bits[s]}
LongestRun(bits) == CHOOSE L \in RunLengths(bits) : \A K \in RunLengths(bits) : K <= L

\* the number of ones of window i (from 0) of size w
WindowOnes(bits, w, i) == Cardinality({t \in (i * w + 1)..((i + 1) * w) : bits[t] = 1})

\* every p-value of the dict is a float of [0, 1]
AllPresent(pdict) == \A j \in 1..Len(pdict) : pdict[j][2] # NoneP

C2_QMonotone ==
    (BHCalled /\ Returned /\ Len(args.pdict) > 0 /\ AllPresent(args.pdict)) =>
        LET p == args.pdict
            q == ret.value
        IN /\ Len(q) = Len(p)
           /\ \A i \in 1..Len(p) : q[i][1] = p[i][1] /\ q[i][2] <= One
           /\ \A i, j \in 1..Len(p) : p[i][2] <= p[j][2] => q[i][2] <= q[j][2]

\* three tests with distinct p-values where the sweep lowered the q-value of
\* the smallest below its raw p * m / 1
C2_Witness ==
    /\ BHCalled /\ Returned /\ Len(args.pdict) = 3 /\ AllPresent(args.pdict)
    /\ args.pdict[1][2] < args.pdict[2][2]
    /\ args.pdict[2][2] < args.pdict[3][2]
    /\ ret.value[1][2] < RawQ(args.pdict[1][2], 3, 1)
    /\ ret.value[2][2] < ret.value[3][2]

\* C3: each q-value returned by benjamini_hochberg is greater than or equal
\* to the raw p-value of the same test.
C3_QAtLeastP ==
    (BHCalled /\ Returned /\ AllPresent(args.pdict)) =>
        \A i \in 1..Len(args.pdict) : ret.value[i][2] >= args.pdict[i][2]

\* C4: repetition_count_test returns pass = None with a reason when n = 0;
\* for a non-empty sequence and cutoff >= 2, max_run is the length of the
\* longest run of identical consecutive bits, and pass is False iff
\* max_run >= cutoff, True otherwise.
C4_RctResult ==
    (RctCalled /\ args.cutoff >= 2) =>
        /\ Returned
        /\ Len(args.bits) = 0 =>
              /\ ret.value.pass = "None"
              /\ "reason" \in DOMAIN ret.value
        /\ Len(args.bits) > 0 =>
              /\ ret.value.max_run = LongestRun(args.bits)
              /\ ret.value.pass \in {"True", "False"}
              /\ (ret.value.pass = "False") = (ret.value.max_run >= args.cutoff)

\* a constant sequence of at least three bits fails with max_run = n
C4_Witness ==
    /\ RctCalled /\ Returned
    /\ Len(args.bits) >= 3
    /\ \A t \in 1..Len(args.bits) : args.bits[t] = args.bits[1]
    /\ ret.value.pass = "False"
    /\ ret.value.max_run = Len(args.bits)

\* C5: for n >= window, adaptive_proportion_test evaluates exactly
\* floor(n / window) windows, fails iff one of them has a ones-count below
\* lower or above upper, and lists every violating window once, in order,
\* with its index and ones-count.
C5_AptWindows ==
    (AptCalled /\ Returned /\ Len(args.bits) >= args.window) =>
        LET r == ret.value
            w == args.window
            nw == Len(args.bits) \div w
            bad == {i \in 0..(nw - 1) :
                       WindowOnes(args.bits, w, i) < r.lower
                           \/ WindowOnes(args.bits, w, i) > r.upper}
        IN /\ r.n_windows = nw
           /\ (r.pass = "False") = (bad # {})
           /\ r.pass \in {"True", "False"}
           /\ Len(r.violations) = Cardinality(bad)
           /\ \A i \in bad :
                 \E t \in 1..Len(r.violations) :
                     r.violations[t] =
                         [window_index |-> i, ones |-> WindowOnes(args.bits, w, i)]
           /\ \A t \in 1..Len(r.violations) : r.violations[t].window_index \in bad
           /\ \A t \in 1..(Len(r.violations) - 1) :
                 r.violations[t].window_index < r.violations[t + 1].window_index

\* two violating windows followed by a remainder that is not evaluated
C5_Witness ==
    /\ AptCalled /\ Returned
    /\ Len(args.bits) >= args.window
    /\ Len(args.bits) % args.window # 0
    /\ Len(ret.value.violations) = 2
    /\ ret.value.pass = "False"

\* C6: for n < window, with a valid window and alpha,
\* adaptive_proportion_test returns pass = None, n_windows = 0 and no
\* violations; it never returns Fail.
C6_AptNotRun ==
    (/\ AptCalled
     /\ args.window > 0 /\ 0 < args.alpha /\ args.alpha < One
     /\ Len(args.bits) < args.window) =>
        /\ Returned
        /\ ret.value.pass = "None"
        /\ ret.value.n_windows = 0
        /\ ret.value.violations = <<>>

\* a non-empty sequence shorter than the window was not run
C6_Witness ==
    /\ AptCalled /\ Returned
    /\ Len(args.bits) > 0
    /\ Len(args.bits) < args.window
    /\ ret.value.pass = "None"

\* C7: repetition_count_test raises whenever cutoff < 2 and
\* adaptive_proportion_test raises whenever window <= 0 or alpha is not
\* strictly between 0 and 1, for every bit sequence; a result that is
\* returned carries the parameters it was given, and only valid ones.
C7_ParameterErrors ==
    /\ RctCalled =>
          /\ Raised = (args.cutoff < 2)
          /\ Returned => ret.value.cutoff = args.cutoff
    /\ AptCalled =>
          /\ Raised = (args.window <= 0 \/ ~(0 < args.alpha /\ args.alpha < One))
          /\ Returned => (ret.value.window = args.window
                            /\ ret.value.alpha = args.alpha)

\* alpha = 1.0 is rejected on a sequence too short to run the test
C7_Witness ==
    /\ AptCalled /\ Raised
    /\ args.alpha = One
    /\ args.window > Len(args.bits)

\* the parameters of a run_tests call that the health tests reject
InvalidRunParameter ==
    \/ args.rct_cutoff < 2
    \/ args.apt_window <= 0
    \/ ~(0 < args.alpha /\ args.alpha < One)

\* C8: run_tests rejects an invalid rct_cutoff, apt_window or alpha with an
\* error for every bit sequence, the empty one included.
C8_RunRejectsInvalid ==
    (RunCalled /\ InvalidRunParameter) => Raised

\* C9: in run_tests a parameter error raised by one health test does not
\* abort the others: the other results are still returned.
C9_ErrorDoesNotAbort ==
    (/\ RunCalled
     /\ Len(args.bits) > 0
     /\ \/ repetition_count_test(args.bits, args.rct_cutoff).kind = "raise"
        \/ adaptive_proportion_test(args.bits, args.apt_window, args.alpha).kind
               = "raise") =>
        /\ Returned
        /\ {"mono_bit_p", "runs_p", "block_frequency_p", "approx_entropy_p"}
               \subseteq DOMAIN ret.value

\* a health-test result that was not run names its reason and the sample size
CarriesReasonAndN(h) == h.pass = "None" => {"reason", "n"} \subseteq DOMAIN h

\* C10: every health-test result with pass = None, returned by a health test
\* or inside the result of run_tests, carries a reason string and n.
C10_NotRunCarriesReason ==
    /\ ((RctCalled \/ AptCalled) /\ Returned) => CarriesReasonAndN(ret.value)
    /\ (RunCalled /\ Returned) =>
          /\ CarriesReasonAndN(ret.value.health.rct)
          /\ CarriesReasonAndN(ret.value.health.apt)

BitsFromSourceCalled == op = "bits_from_source"
BitsFromBytesCalled == op = "_bits_from_bytes"
PackBitsCalled == op = "_pack_bits_little"
NextBytesCalled == op = "next_bytes"

\* every element is 0 or 1
IsBits(s) == \A t \in 1..Len(s) : s[t] \in {0, 1}

\* the smaller of two integers
Min(x, y) == IF x <= y THEN x ELSE y

\* bit j (weight 2^j) of a byte
Weight(byte, j) == (byte \div Pow2(j)) % 2

\* C11: bit materialization returns values of {0,1} and exactly
\* min(n_bits, available) of them: bits_from_source returns n_bits bits from
\* a generator (none for n_bits = 0), and _bits_from_bytes returns
\* min(n_bits, 8 * b) bits of a payload of b bytes, without raising.
C11_MaterializedLength ==
    /\ (BitsFromSourceCalled /\ args.n_bits >= 0) =>
          /\ Returned
          /\ IsBits(ret.value)
          /\ Len(ret.value) = args.n_bits
    /\ (BitsFromBytesCalled /\ args.n_bits >= 0) =>
          /\ Returned
          /\ IsBits(ret.value)
          /\ Len(ret.value) = Min(args.n_bits, 8 * Len(args.raw))

\* nine bits asked of an OSRandom object, which pulled two bytes for them
C11_Witness ==
    /\ BitsFromSourceCalled /\ Returned
    /\ args.src.cls = "OSRandom"
    /\ args.n_bits = 9
    /\ Len(ret.value) = 9
    /\ Len(hist.out) >= 16

\* C12: for an LCG or XorShift32 object in any reachable state,
\* bits_from_source(src, n) equals the values n successive next_bit() calls
\* return from that state.
C12_BytesMatchBits ==
    (BitsFromSourceCalled /\ args.src.cls \in {"LCG", "XorShift32"}) =>
        /\ Returned
        /\ ret.value = NextBits(args.src, args.n_bits, <<>>).value

\* a XorShift32 object that is not byte-aligned and whose word ends within
\* the bits asked for
C12_Witness ==
    /\ BitsFromSourceCalled /\ Returned
    /\ args.src.cls = "XorShift32"
    /\ args.src.bit_i % 8 # 0
    /\ args.src.bit_i < 32
    /\ args.src.bit_i + args.n_bits > 32

\* C13: a raw byte payload is converted LSB-first: bit j (weight 2^j) of
\* byte i is element 8 * i + j of the bit sequence.
C13_PayloadLsbFirst ==
    BitsFromBytesCalled =>
        \A i \in 0..(Len(args.raw) - 1) : \A j \in 0..7 :
            8 * i + j + 1 <= Len(ret.value) =>
                ret.value[8 * i + j + 1] = Weight(args.raw[i + 1], j)

\* C14: _pack_bits_little returns ceil(n / 8) bytes, the bits of the last
\* byte beyond the sequence are zero, and unpacking the bytes LSB-first and
\* keeping the first n bits gives back the sequence.
C14_PackRoundTrip ==
    PackBitsCalled =>
        LET n == Len(args.bits)
            raw == ret.value
        IN /\ Returned
           /\ 8 * Len(raw) >= n /\ 8 * Len(raw) < n + 8
           /\ \A i \in 1..Len(raw) : raw[i] \in 0..255
           /\ \A t \in (n + 1)..(8 * Len(raw)) :
                 Weight(raw[((t - 1) \div 8) + 1], (t - 1) % 8) = 0
           /\ PySliceTo(UnpackLittle(raw), n) = args.bits

\* seventeen bits ending in a one: three bytes, the last of them 1
C14_Witness ==
    /\ PackBitsCalled /\ Returned
    /\ Len(args.bits) = 17
    /\ args.bits[17] = 1
    /\ Len(ret.value) = 3
    /\ ret.value[3] = 1

\* C15: whatever next_bit() and next_bytes(k) calls a XorShift32 object has
\* served, the bits it has emitted (bytes expanded LSB-first) are the bits
\* that next_bit() calls alone return from the same seed.
C15_XorShiftOneStream ==
    source.cls = "XorShift32" =>
        hist.out = NextBits(hist.made, Len(hist.out), <<>>).value

\* a byte-aligned next_bytes that started in the middle of a word and went
\* on into the next word
C15_Witness ==
    /\ NextBytesCalled /\ Returned
    /\ source.cls = "XorShift32"
    /\ args.self.bit_i \in {8, 16, 24}
    /\ args.self.bit_i + 8 * args.n > 32
    /\ Len(hist.out) > 32

\* C16: whatever next_bit() and next_bytes(k) calls an OSRandom object has
\* served, the bits it has emitted are the LSB-first expansion of the
\* os.urandom buffers in the order they were drawn, up to the position
\* reached in the current buffer: no bit is skipped, repeated or reordered.
C16_OsRandomOneStream ==
    source.cls = "OSRandom" =>
        /\ Len(hist.out) <= 8 * Len(hist.drawn)
        /\ hist.out = SubSeq(UnpackLittle(hist.drawn), 1, Len(hist.out))
        /\ 8 * Len(hist.drawn) - Len(hist.out)
              = 8 * (Len(source.buf) - source.byte_i) - source.bit_i

\* a next_bytes called while not byte-aligned that refilled the buffer
C16_Witness ==
    /\ NextBytesCalled /\ Returned
    /\ source.cls = "OSRandom"
    /\ args.self.bit_i # 0
    /\ args.n >= 1
    /\ Len(hist.out) - 8 * args.n < 8 * UrandomLen
    /\ Len(hist.out) > 8 * UrandomLen

MonoBitCalled == op = "mono_bit_pvalue"
MonobitCalled == op = "monobit_pvalue"
RunsCalled == op = "runs_pvalue"
BlockFrequencyCalled == op = "block_frequency_pvalue"
ApproxEntropyCalled == op = "approximate_entropy_pvalue"

\* C17: the balance test returns p = 1.0 for the empty sequence, in
\* metrics/mono_bit.py and in metrics/monobit.py.
C17_EmptyIsNeutral ==
    ((MonoBitCalled \/ MonobitCalled) /\ Len(args.bits) = 0) =>
        ret.value = One

\* every bit equals the first one
AllSame(bits) == \A t \in 1..Len(bits) : bits[t] = bits[1]

\* |pi - 1/2| >= 2 / sqrt(n) for pi = ones / n, both sides squared
OffCentre(bits) ==
    LET n == Len(bits)
        ones == Cardinality({t \in 1..n : bits[t] = 1})
    IN n > 0 /\ (2 * ones - n) * (2 * ones - n) >= 16 * n

\* C18: runs_pvalue returns exactly 0.0 for every sequence whose fraction
\* of ones violates |pi - 0.5| < 2/sqrt(n), and for every all-zero or
\* all-one sequence; it returns, it does not raise.
C18_RunsRejects ==
    (RunsCalled /\ (AllSame(args.bits) \/ OffCentre(args.bits))) =>
        /\ Returned
        /\ ret.value = 0

\* block i (from 0) of size M holds as many ones as zeros
Balanced(bits, M, i) ==
    2 * Cardinality({t \in (i * M + 1)..((i + 1) * M) : bits[t] = 1}) = M

\* C19: block_frequency_pvalue uses the N = floor(n / M) complete blocks and
\* ignores the n mod M trailing bits, and returns exactly 0.0 when N = 0;
\* approximate_entropy_pvalue returns exactly 0.0 when n <= m + 1; neither
\* raises nor returns 1.0 in these cases.
C19_InsufficientData ==
    /\ (BlockFrequencyCalled /\ args.M > 0) =>
          LET N == Len(args.bits) \div args.M
          IN /\ Returned
             /\ N = 0 => ret.value = 0
             /\ N > 0 =>
                   /\ ret.value = block_frequency_pvalue(
                          SubSeq(args.bits, 1, N * args.M), args.M, args.lib)
                   /\ (ret.value = One) =
                          (\A i \in 0..(N - 1) : Balanced(args.bits, args.M, i))
    /\ (ApproxEntropyCalled /\ Len(args.bits) <= args.m + 1) =>
          /\ Returned
          /\ ret.value = 0

\* a non-empty sequence shorter than one block
C19_Witness ==
    /\ BlockFrequencyCalled /\ Returned
    /\ Len(args.bits) > 0
    /\ args.M > Len(args.bits)
    /\ ret.value = 0

\* no two neighbours are equal, and there are at least two bits
IsAlternating(bits) ==
    /\ Len(bits) >= 2
    /\ \A t \in 1..(Len(bits) - 1) : bits[t] # bits[t + 1]

\* C20: runs_pvalue returns p = 0.0 for every perfectly alternating
\* sequence.
C20_AlternatingIsZero ==
    (RunsCalled /\ IsAlternating(args.bits)) => ret.value = 0

PredictCalled == op = "predictability_score"

\* the (k+1)-bit window that starts at bit i
WindowAt(bits, k, i) == SubSeq(bits, i, i + k)

\* C21: predictability_score has one sample per overlapping (k+1)-bit
\* window, in stream order; the first floor(m * train_frac) of the m = n - k
\* samples (the product being the float product) are the training set and
\* the others the test set, in order; the
\* result is None when n <= k, m < 2, a split is empty or the training
\* labels are of one class; and for train_frac = 0.5 it is the score that
\* run_tests reports.
C21_PredictorSplit ==
    (PredictCalled /\ Returned /\ args.k >= 1
        /\ ~MlInvalidFrac(args.train_frac)) =>
        LET bits == args.bits
            k == args.k
            m == Len(bits) - k
            s == Round(args.train_frac * m, 1) \div Scale
            f == ret.fit
        IN /\ (Len(bits) <= k \/ m < 2 \/ s <= 0 \/ s >= m) => ret.value = NoneP
           /\ (m >= 2 /\ 0 < s /\ s < m
                 /\ \A i, j \in 1..s : bits[i + k] = bits[j + k])
                 => ret.value = NoneP
           /\ ret.value # NoneP =>
                 /\ f.ok
                 /\ Len(f.y_train) = s /\ Len(f.X_train) = s
                 /\ Len(f.y_test) = m - s /\ Len(f.X_test) = m - s
                 /\ \A i \in 1..s :
                       f.X_train[i] \o <<f.y_train[i]>> = WindowAt(bits, k, i)
                 /\ \A i \in 1..(m - s) :
                       f.X_test[i] \o <<f.y_test[i]>>
                           = WindowAt(bits, k, s + i)
           /\ 2 * args.train_frac = One =>
                 ret.value = predictability_score(bits, k, args.lib)

\* a numeric accuracy from a split into unequal parts
C21_Witness ==
    /\ PredictCalled /\ Returned
    /\ ret.value # NoneP
    /\ Len(ret.fit.y_train) # Len(ret.fit.y_test)
    /\ args.k >= 2

RenderCalled == op = "render"

\* C22: when ml_accuracy is None, decisions["ml_pass"] is true and no
\* consumer of the result (dashboard, markdown report, explanation, advisor)
\* reports the ML check as failed.
C22_MlNotApplicablePasses ==
    /\ (RunCalled /\ Returned /\ ret.value.ml_accuracy = NoneP) =>
          ret.value.decisions.ml_pass
    /\ (RenderCalled /\ args.results.ml_accuracy = NoneP) =>
          /\ ret.value.gui_ml_status # "FAIL"
          /\ ret.value.report_ml_line # "FAIL"
          /\ ~ret.value.report_ml_comment
          /\ ~ret.value.explain_ml
          /\ ~ret.value.advise_ml

\* the first materialization of a new LCG follows its construction
FirstMaterialization == op = "LCG" /\ op' = "bits_from_source"

\* run_tests is called again on the arguments of the call before
Repeated == op = "run_tests" /\ op' = "run_tests_again"

PresentPs(pdict) == SelectSeq(pdict, LAMBDA kv : kv[2] # NoneP)

\* the p-values of a dict in ascending order: p_(1) <= ... <= p_(m)
RECURSIVE Ascending(_)
Ascending(vs) ==
    IF vs = <<>> THEN <<>>
    ELSE LET k == CHOOSE k \in 1..Len(vs) : \A t \in 1..Len(vs) : vs[k] <= vs[t]
         IN <<vs[k]>>
                \o Ascending(SubSeq(vs, 1, k - 1) \o SubSeq(vs, k + 1, Len(vs)))

PValues(ps) == [t \in 1..Len(ps) |-> ps[t][2]]
OrderStats(pdict) == Ascending(PValues(PresentPs(pdict)))

\* min(1, p_(j) * m / j), in the arithmetic of the code
Candidate(s, j) == FMin(FDiv(FMul(s[j], Len(s)), j), One)

\* min over the ranks j >= i of the candidates
Least(S) == CHOOSE q \in S : \A r \in S : q <= r
StepUp(s, i) == Least({Candidate(s, j) : j \in i..Len(s)})

\* the entries of a dict whose p-value is v have the q-value q in a result
AllGiven(pdict, qdict, v, q) ==
    \A t \in 1..Len(pdict) : pdict[t][2] = v => qdict[t][2] = q

\* C24: the q-value benjamini_hochberg returns for the test of ascending rank
\* i among the m p-values that are present equals the minimum over the ranks
\* j >= i of min(1, p_(j) * m / j)
C24_StepUpFormula ==
    (BHCalled /\ Returned) =>
        LET s == OrderStats(args.pdict)
        IN \A i \in 1..Len(s) :
               AllGiven(args.pdict, ret.value, s[i], StepUp(s, i))

\* three tests of which one has a candidate above 1.0, and the first in rank
\* takes its q-value from a later rank
C24_Witness ==
    /\ BHCalled /\ Returned /\ Len(args.pdict) = 3 /\ AllPresent(args.pdict)
    /\ args.pdict[3][2] < args.pdict[1][2]
    /\ args.pdict[1][2] < args.pdict[2][2]
    /\ \E j \in 1..3 : FDiv(FMul(OrderStats(args.pdict)[j], 3), j) > One
    /\ ret.value[3][2] < FDiv(FMul(args.pdict[3][2], 3), 1)
    /\ ret.value[3][2] < ret.value[2][2]

\* the entries of a dict arranged by name, in the order of Keys
ByName(d) ==
    [j \in 1..Len(d) |->
        d[CHOOSE t \in 1..Len(d) :
              Cardinality({u \in 1..Len(d) : KeyIndex(d[u][1]) < KeyIndex(d[t][1])})
                  = j - 1]]

\* C28: the q-value of a test depends only on the p-values of the dict as a
\* multiset and on the test's own p-value: a dict whose entries were inserted
\* in any order gives every name the q-value that the dict with the same
\* entries inserted in the order of their names gives it, and tests with
\* equal p-values have equal q-values
C28_OrderIndependent ==
    (BHCalled /\ Returned /\ Len(PresentPs(args.pdict)) > 0) =>
        /\ ByName(ret.value) = benjamini_hochberg(ByName(args.pdict))
        /\ \A i, j \in 1..Len(args.pdict) :
              args.pdict[i][2] = args.pdict[j][2] => ret.value[i][2] = ret.value[j][2]

\* two tests with equal p-values between a smaller and a larger one, given
\* in descending order of p and not in the order of their names
C28_Witness ==
    /\ BHCalled /\ Returned /\ Len(args.pdict) = 3 /\ AllPresent(args.pdict)
    /\ args.pdict[1][1] = "b" /\ args.pdict[2][1] = "c" /\ args.pdict[3][1] = "a"
    /\ args.pdict[1][2] > args.pdict[2][2]
    /\ args.pdict[2][2] = args.pdict[3][2]
    /\ ret.value[2][2] = ret.value[3][2]
    /\ ret.value[1][2] > ret.value[2][2]
    /\ ret.value[2][2] > args.pdict[2][2]

\* the generator in use is an LCG with the constructor's default parameters
DefaultLcg ==
    /\ source.cls = "LCG"
    /\ source.a = ToBig(1664525)
    /\ source.c = ToBig(1013904223)
    /\ source.m = <<Limb, 0>>

\* C25: with the default parameters the least-significant bit of the state
\* alternates: the bit the next next_bit() call returns differs from the
\* least-significant bit of the current state, and any two consecutive bits
\* of the stream emitted since construction differ
C25_DefaultLcgAlternates ==
    DefaultLcg =>
        /\ next_bit(source, <<>>).value = 1 - (source.state[2] % 2)
        /\ op = "next_bit" => ret.value = 1 - (args.self.state[2] % 2)
        /\ \A i \in 1..(Len(hist.out) - 1) : hist.out[i] # hist.out[i + 1]

\* a default LCG that has emitted more than two bytes, the last bit through
\* next_bit()
C25_Witness ==
    /\ DefaultLcg
    /\ op = "next_bit"
    /\ Len(hist.out) > 2 * ByteBits
    /\ hist.out[Len(hist.out)] = ret.value
    /\ hist.out[Len(hist.out) - 1] = 1 - ret.value

\* C29: the 32-bit state of an XorShift32 is nonzero after construction, for
\* every integer seed, and after every next_bit(), next_bytes() and
\* bits_from_source() call
C29_XorShiftStateNonzero ==
    source.cls = "XorShift32" => \E i \in 1..WordBits : source.state[i] = 1

\* the stream bits a materialization of n bits takes from its source
Consumed(n) == IF n <= 0 THEN 0 ELSE ByteBits * ((n + ByteBits - 1) \div ByteBits)

\* a bits_from_source call is made
Materializes == op' = "bits_from_source"

\* a bits_from_source call for b > 0 bits follows one for a > 0 bits on an
\* LCG or XorShift32 object
MaterializesAgain ==
    /\ op = "bits_from_source" /\ op' = "bits_from_source"
    /\ args.src.cls \in {"LCG", "XorShift32"}
    /\ args.n_bits > 0 /\ args'.n_bits > 0

\* the bits of both calls together are those of one call for a + b bits on
\* the object the first call was made on
SameAsOneCall ==
    ret.value \o ret'.value
        = bits_from_source(args.src, args.n_bits + args'.n_bits, <<>>).value

\* the first n stream bits of an LCG or XorShift32 object
Stream(src, n) == NextBits(src, n, <<>>).value

\* C30: bits_from_source(src, n) advances the source by exactly
\* 8 * ceil(n / 8) stream bits, and not at all for n <= 0; after a
\* materialization of a > 0 bits, one of b > 0 bits returns the stream bits
\* 8 * ceil(a / 8) + 1 .. 8 * ceil(a / 8) + b, so that the two together equal
\* one materialization of a + b bits whenever a is a multiple of 8, and
\* otherwise exactly when the stream repeats after the discarded bits
C30_AdvanceByWholeBytes ==
    [][/\ Materializes =>
              /\ Len(hist'.out) = Len(hist.out) + Consumed(args'.n_bits)
              /\ source' = NextBits(source, Consumed(args'.n_bits), hist.tape).src
              /\ args'.n_bits <= 0 => source' = source /\ hist' = hist
       /\ MaterializesAgain =>
              LET a == args.n_bits
                  b == args'.n_bits
                  s == Stream(args.src, Consumed(a) + b)
              IN /\ ret.value = SubSeq(s, 1, a)
                 /\ ret'.value = SubSeq(s, Consumed(a) + 1, Consumed(a) + b)
                 /\ a % ByteBits = 0 => SameAsOneCall
                 /\ SameAsOneCall
                        <=> SubSeq(s, a + 1, a + b)
                                = SubSeq(s, Consumed(a) + 1, Consumed(a) + b)]_vars

\* C30 as stated: two successive materializations of a and b bits equal one
\* materialization of a + b bits only when a is a multiple of 8
C30_EqualOnlyWhenAligned ==
    [][/\ Materializes =>
              /\ Len(hist'.out) = Len(hist.out) + Consumed(args'.n_bits)
              /\ args'.n_bits <= 0 => source' = source /\ hist' = hist
       /\ (MaterializesAgain /\ SameAsOneCall) => args.n_bits % ByteBits = 0]_vars

\* a default LCG from which two bits were materialized after two bits: the
\* second call returns the bits 9 and 10 of the stream, which repeat the
\* bits 3 and 4
C30_Witness ==
    /\ op = "bits_from_source"
    /\ DefaultLcg
    /\ args.n_bits = 2
    /\ args.src = NextBits(hist.made, ByteBits, <<>>).src
    /\ Len(hist.out) = 2 * ByteBits
    /\ ret.value = SubSeq(hist.out, ByteBits + 1, ByteBits + 2)
    /\ ret.value = SubSeq(hist.out, 3, 4)

\* run_tests is called on the empty sequence with alpha in (0, 1)
RunOnEmpty ==
    /\ RunCalled
    /\ Len(args.bits) = 0
    /\ 0 < args.alpha /\ args.alpha < One

\* C26: for the empty sequence run_tests returns overall_pass_fdr = false
\* although both health tests are not run: runs, block-frequency and
\* approximate-entropy have p = 0.0 and mono-bit has 1.0, so three q-values
\* are 0 and are rejected at every alpha of (0, 1)
C26_EmptyFailsOverall ==
    RunOnEmpty =>
        /\ Returned
        /\ ret.value.mono_bit_p = One
        /\ ret.value.runs_p = 0
        /\ ret.value.block_frequency_p = 0
        /\ ret.value.approx_entropy_p = 0
        /\ ret.value.health.rct.pass = "None"
        /\ ret.value.health.apt.pass = "None"
        /\ \A j \in 1..4 :
              /\ ret.value.pvals_fdr[j][1] = "mono_bit" => ret.value.pvals_fdr[j][2] = One
              /\ ret.value.pvals_fdr[j][1] # "mono_bit" =>
                    /\ ret.value.pvals_fdr[j][2] = 0
                    /\ ret.value.pvals_fdr[j][2] <= ret.value.alpha
        /\ ret.value.decisions.overall_pass_fdr = FALSE

\* the empty sequence with a positive block size and valid health parameters
C26_Witness ==
    /\ RunOnEmpty /\ Returned
    /\ args.block_size > 0
    /\ args.rct_cutoff >= 2 /\ args.apt_window > 0
    /\ ret.value.health.rct.pass = "None"
    /\ ~ret.value.decisions.overall_pass_fdr

\* decisions["<name>_pass"] of the j-th p-value test of a result
TestPass(v, j) ==
    IF j = 1 THEN v.decisions.mono_bit_pass
    ELSE IF j = 2 THEN v.decisions.runs_pass
    ELSE IF j = 3 THEN v.decisions.block_frequency_pass
    ELSE v.decisions.approx_entropy_pass

\* C27: in every result of run_tests a p-value test with q <= alpha has
\* p <= alpha and its decision "<name>_pass" is false; if the four decisions
\* are true and neither health test has pass = False, overall_pass_fdr is
\* true
C27_RejectedImpliesDecisionFalse ==
    (RunCalled /\ Returned) =>
        LET v == ret.value
        IN /\ \A j \in 1..4 :
                 /\ v.pvals_fdr[j][1] = v.pvals_raw[j][1]
                 /\ (v.pvals_fdr[j][2] # NoneP /\ v.pvals_fdr[j][2] <= v.alpha) =>
                        /\ v.pvals_raw[j][2] <= v.alpha
                        /\ TestPass(v, j) = FALSE
           /\ (/\ \A j \in 1..4 : TestPass(v, j)
               /\ v.health.rct.pass # "False"
               /\ v.health.apt.pass # "False") =>
                  v.decisions.overall_pass_fdr

\* the converse fails: a result with overall_pass_fdr true in which a test
\* has p <= alpha, its decision false, and q > alpha
C27_Witness ==
    /\ RunCalled /\ Returned
    /\ ret.value.decisions.overall_pass_fdr
    /\ \E j \in 1..4 :
          /\ ~TestPass(ret.value, j)
          /\ ret.value.pvals_raw[j][2] <= ret.value.alpha
          /\ ret.value.pvals_fdr[j][2] > ret.value.alpha

====
